---- MODULE Spec2Model ----
(***************************************************************************)
(* Texas Hold'em table of the Poker repository: the hand lifecycle, the    *)
(* betting-round engine and the hand evaluator, together with the timers   *)
(* and the render effect that drive them (App component, pokerLogic,       *)
(* geminiService).                                                         *)
(***************************************************************************)
EXTENDS Integers, Sequences, FiniteSets, TLC

\* ------------------------------------------------------------------------
\* Program constants
\* ------------------------------------------------------------------------
NumSeats == 8
STARTING_CHIPS == 1000
SB_AMOUNT == 5
BB_AMOUNT == 10

Seats == 0 .. (NumSeats - 1)
NoSeat == -1
NoAggressor == -2

\* ------------------------------------------------------------------------
\* Bounds of the exploration
\* ------------------------------------------------------------------------
MaxAdvanceTimers == 2
MaxDecisionTimers == 1

Min(a, b) == IF a < b THEN a ELSE b
Max(a, b) == IF a > b THEN a ELSE b

RECURSIVE Pow(_, _)
Pow(b, e) == IF e = 0 THEN 1 ELSE b * Pow(b, e - 1)

\* ------------------------------------------------------------------------
\* Cards and deck (pokerLogic)
\* ------------------------------------------------------------------------
SUITS == <<"hearts", "diamonds", "clubs", "spades">>

\* A card is its suit and its numeric value 2..14; the rank symbol is a
\* function of the value and is only displayed.
createDeck ==
  [k \in 1 .. 52 |-> [suit |-> SUITS[((k - 1) \div 13) + 1],
                      value |-> ((k - 1) % 13) + 2]]

\* Fisher-Yates: for i = 51 down to 1 swap positions i and j(i), where
\* j(i) = floor(random * (i + 1)) is in 0..i.  d is indexed from 1, so the
\* JavaScript position i is d[i + 1].
RECURSIVE shuffleFrom(_, _, _)
shuffleFrom(d, i, j) ==
  IF i <= 0 THEN d
  ELSE shuffleFrom([d EXCEPT ![i + 1] = d[j[i] + 1], ![j[i] + 1] = d[i + 1]],
                   i - 1, j)

shuffleDeck(d, j) == shuffleFrom(d, Len(d) - 1, j)

\* The outcomes of Math.random() that the exploration draws from: every
\* j(i) = i (no card moves) and the draws that reverse the deck.
RandomDraws ==
  { [i \in 1 .. 51 |-> i],
    [i \in 1 .. 51 |-> IF i >= 26 THEN 51 - i ELSE i] }

\* ------------------------------------------------------------------------
\* Hand evaluator (pokerLogic.evaluateHand)
\* ------------------------------------------------------------------------
RECURSIVE InsertDesc(_, _)
InsertDesc(x, s) ==
  IF s = <<>> THEN <<x>>
  ELSE IF Head(s).value <= x.value THEN <<x>> \o s
  ELSE <<Head(s)>> \o InsertDesc(x, Tail(s))

\* Array.prototype.sort((a, b) => b.value - a.value): stable, descending.
RECURSIVE SortDesc(_)
SortDesc(s) == IF s = <<>> THEN <<>> ELSE InsertDesc(Head(s), SortDesc(Tail(s)))

RECURSIVE SetToDescSeq(_)
SetToDescSeq(S) ==
  IF S = {} THEN <<>>
  ELSE LET m == CHOOSE x \in S : \A y \in S : y <= x
       IN <<m>> \o SetToDescSeq(S \ {m})

CountSuit(c, s) == Cardinality({k \in DOMAIN c : c[k].suit = s})
CountValue(c, v) == Cardinality({k \in DOMAIN c : c[k].value = v})

\* First suit, in the order of the suits object, held at least 5 times.
isFlush(c) ==
  IF \E n \in 1 .. 4 : CountSuit(c, SUITS[n]) >= 5
  THEN SUITS[CHOOSE n \in 1 .. 4 :
               /\ CountSuit(c, SUITS[n]) >= 5
               /\ \A m \in 1 .. (n - 1) : CountSuit(c, SUITS[m]) < 5]
  ELSE "none"

\* High card of the first window of 5 distinct values spanning exactly 4,
\* the ace also counting as 1; 0 stands for null.
isStraightMutant(c) ==
  LET vs == {c[k].value : k \in DOMAIN c}
      uniqueValues == SetToDescSeq(vs)
      hits == {i \in 1 .. (Len(uniqueValues) - 4) :
                 uniqueValues[i] - uniqueValues[i + 4] = 4}
  IN IF hits = {} THEN 0
     ELSE uniqueValues[CHOOSE i \in hits : \A h \in hits : i <= h]
isStraight(c) ==
  LET vs == {c[k].value : k \in DOMAIN c}
      u0 == SetToDescSeq(vs)
      uniqueValues == IF 14 \in vs THEN Append(u0, 1) ELSE u0
      hits == {i \in 1 .. (Len(uniqueValues) - 4) :
                 uniqueValues[i] - uniqueValues[i + 4] = 4}
  IN IF hits = {} THEN 0
     ELSE uniqueValues[CHOOSE i \in hits : \A h \in hits : i <= h]

FirstN(s, n) == SubSeq(s, 1, Min(n, Len(s)))

RECURSIVE WeightedSum(_, _, _)
\* reduce((acc, c, i) => acc + c.value * 15^(top - i)) over the cards of s.
WeightedSum(s, i, top) ==
  IF i > Len(s) THEN 0
  ELSE s[i].value * Pow(15, top - (i - 1)) + WeightedSum(s, i + 1, top)

\* The pair of a full house: the second three-of-a-kind if there is one,
\* else the highest pair.
fullHousePairMutant(threeOfAKind, pairs) ==
  IF Len(threeOfAKind) > 1 THEN threeOfAKind[2] ELSE pairs[Len(pairs)]
fullHousePairOf(threeOfAKind, pairs) ==
  IF Len(threeOfAKind) > 1 THEN threeOfAKind[2] ELSE pairs[1]

\* The score of two pair p1 > p2 with the given kicker.
twoPairScoreMutant(p1, p2, kicker) == 2000000 + p1 * 200 + p2 * 15
twoPairScoreOf(p1, p2, kicker) == 2000000 + p1 * 200 + p2 * 15 + kicker

\* The rank and score of the cards sorted by descending value.
handRankOf(cards) ==
  LET flushSuit == isFlush(cards)
      InFlush(x) == x.suit = flushSuit
      flushCards == IF flushSuit # "none" THEN SelectSeq(cards, InFlush) ELSE <<>>
      straightHigh == isStraight(cards)
      straightFlushHigh == IF flushSuit # "none" THEN isStraight(flushCards) ELSE 0
      vals == {cards[k].value : k \in DOMAIN cards}
      fours == {v \in vals : CountValue(cards, v) = 4}
      fourOfAKind == IF fours = {} THEN 0
                     ELSE CHOOSE v \in fours : \A w \in fours : v <= w
      threeOfAKind == SetToDescSeq({v \in vals : CountValue(cards, v) = 3})
      pairs == SetToDescSeq({v \in vals : CountValue(cards, v) = 2})
      FirstOther(ex) ==
        LET ks == {k \in DOMAIN cards : cards[k].value \notin ex}
        IN IF ks = {} THEN 0
           ELSE cards[CHOOSE k \in ks : \A m \in ks : k <= m].value
  IN
  IF straightFlushHigh # 0
    THEN [rank |-> 8, score |-> 8000000 + straightFlushHigh]
  ELSE IF fourOfAKind # 0
    THEN [rank |-> 7, score |-> 7000000 + fourOfAKind * 100
                                 + FirstOther({fourOfAKind})]
  ELSE IF Len(threeOfAKind) > 0 /\ (Len(threeOfAKind) > 1 \/ Len(pairs) > 0)
    THEN LET trip == threeOfAKind[1]
             pair == fullHousePairOf(threeOfAKind, pairs)
         IN [rank |-> 6, score |-> 6000000 + trip * 100 + pair]
  ELSE IF flushSuit # "none"
    THEN [rank |-> 5, score |-> 5000000 + WeightedSum(FirstN(flushCards, 5), 1, 4)]
  ELSE IF straightHigh # 0
    THEN [rank |-> 4, score |-> 4000000 + straightHigh]
  ELSE IF Len(threeOfAKind) > 0
    THEN LET trip == threeOfAKind[1]
             NotTrip(x) == x.value # trip
             kickers == FirstN(SelectSeq(cards, NotTrip), 2)
         IN [rank |-> 3, score |-> 3000000 + trip * 1000
                                    + kickers[1].value * 15 + kickers[2].value]
  ELSE IF Len(pairs) >= 2
    THEN LET p1 == pairs[1]
             p2 == pairs[2]
         IN [rank |-> 2, score |-> twoPairScoreOf(p1, p2, FirstOther({p1, p2}))]
  ELSE IF Len(pairs) > 0
    THEN LET p1 == pairs[1]
             NotPair(x) == x.value # p1
             kickers == FirstN(SelectSeq(cards, NotPair), 3)
         IN [rank |-> 1, score |-> 1000000 + p1 * 5000 + WeightedSum(kickers, 1, 2)]
  ELSE [rank |-> 0, score |-> WeightedSum(FirstN(cards, 5), 1, 4)]

evaluateHand(holeCards, communityCards) ==
  handRankOf(SortDesc(holeCards \o communityCards))

\* ------------------------------------------------------------------------
\* State
\* ------------------------------------------------------------------------
VARIABLES
  gameState,       \* the GameState held by useState
  actionTimers,    \* pending setTimeout(advanceTurn, 500) set by handleAction
  autoTimers,      \* pending setTimeout(advanceTurn, 1000) set by the effect
  decisionTimers,  \* pending AI-decision callbacks (their closures)
  handStarted,     \* the "Next Hand" button has been pressed
  reloading,       \* window.location.reload() has been called
  chipsAtStart,    \* chips on the table when the hand was started
  dealtSeats,      \* seats dealt two hole cards when the hand was started
  blindSeats,      \* seats chosen as small and big blind when it was started
  probe,           \* a function examined on its own: its input and its result
  op               \* the callback that ran last: its name, the seat to act
                   \* when it ran, the action and amount given to
                   \* handleAction, the status that seat had before and
                   \* the table bet-to-match before

vars == <<gameState, actionTimers, autoTimers, decisionTimers, handStarted,
          reloading, chipsAtStart, dealtSeats, blindSeats, probe, op>>

\* No function is under examination.
NoProbe == [fn |-> "none"]

RECURSIVE SumChips(_, _)
SumChips(players, S) ==
  IF S = {} THEN 0
  ELSE LET i == CHOOSE x \in S : TRUE
       IN players[i].chips + SumChips(players, S \ {i})

\* All chips on the table: the stacks and the pot.
TableChips(g) == SumChips(g.players, Seats) + g.pot

BettingStages == {"preflop", "flop", "turn", "river"}

\* Seats that may hold chips between hands, and the stacks they may hold.
InitSeats == {0, 1, 3}
InitStacks == {0, 3, 25}

\* The hole cards a seat still holds from the hand before: every seat was
\* dealt in some earlier hand, here from an unshuffled deck to all seats.
staleHand(i) == <<createDeck[52 - 2 * i], createDeck[51 - 2 * i]>>

\* What a seat still shows as invested from the hand before: every seat
\* has at least met the big blind of that hand.
staleInvested == BB_AMOUNT

INITIAL_PLAYER(i, c, st) ==
  [chips |-> c, hand |-> staleHand(i), currentBet |-> 0, status |-> st,
   totalInvested |-> staleInvested, lastAction |-> "none"]

\* The value useState is given: eight seats with the starting stack and no
\* cards, no hand in progress.
INITIAL_STATE ==
  [players |-> [i \in Seats |->
                  [chips |-> STARTING_CHIPS, hand |-> <<>>, currentBet |-> 0,
                   status |-> "active", totalInvested |-> 0, lastAction |-> "none"]],
   pot |-> 0,
   communityCards |-> <<>>,
   deck |-> <<>>,
   dealerIndex |-> 0,
   currentPlayerIndex |-> NoSeat,
   currentBet |-> 0,
   minRaise |-> BB_AMOUNT,
   lastAggressorIndex |-> NoAggressor,
   stage |-> "gameOver",
   winners |-> <<>>,
   isThinking |-> FALSE,
   gameMode |-> "online"]

\* The decision provider selected by the Mode button.
GameModes == {"online", "offline"}

\* The table between two hands, as the session leaves it when a hand is
\* over and the next has not been started.  A seat that holds chips is as
\* constructed; a seat without chips either lost them in the hand just
\* played (all-in) or was demoted to spectator at the start of that hand.
BetweenHands(stacks, demoted, d, mode) ==
  [players |-> [i \in Seats |->
       IF i \in InitSeats /\ stacks[i] > 0
         THEN INITIAL_PLAYER(i, stacks[i], "active")
       ELSE IF i \in demoted
         THEN INITIAL_PLAYER(i, 0, "spectator")
       ELSE INITIAL_PLAYER(i, 0, "all-in")],
   pot |-> 0,
   communityCards |-> <<>>,
   deck |-> <<>>,
   dealerIndex |-> d,
   currentPlayerIndex |-> NoSeat,
   currentBet |-> 0,
   minRaise |-> BB_AMOUNT,
   lastAggressorIndex |-> NoAggressor,
   stage |-> "gameOver",
   winners |-> <<>>,
   isThinking |-> FALSE,
   gameMode |-> mode]

\* No callback is pending and no button has been pressed.
Quiet ==
  /\ actionTimers = 0
  /\ autoTimers = 0
  /\ decisionTimers = <<>>
  /\ handStarted = FALSE
  /\ reloading = FALSE
  /\ chipsAtStart = TableChips(gameState)
  /\ dealtSeats = {}
  /\ blindSeats = [sb |-> NoSeat, bb |-> NoSeat]
  /\ op = [name |-> "init", seat |-> NoSeat, action |-> "none", amount |-> 0,
           was |-> "none", tableBet |-> 0]

\* One hand is followed from each table between two hands; seat 0 is never
\* demoted, the page being reloaded instead.  The mode is the one of a
\* session with an API key: the decision callback treats whatever the
\* provider returns alike, and the local strategy's decisions are among those
\* the external one may return.  The last-aggressor marker is the one the
\* hand before has left: none, or the seat that raised last.
Init ==
  /\ \E stacks \in [InitSeats -> InitStacks], demoted \in SUBSET (InitSeats \ {0}),
        d \in Seats, aggressor \in {NoAggressor} \cup InitSeats :
       /\ \A i \in demoted : stacks[i] = 0
       /\ \E i \in InitSeats : stacks[i] > 0
       /\ gameState = [BetweenHands(stacks, demoted, d, "online")
                         EXCEPT !.lastAggressorIndex = aggressor]
  /\ Quiet
  /\ probe = NoProbe

WithStatus(players, st) == {i \in Seats : players[i].status = st}

\* First seat at or after i, scanning upward modulo the table size, that
\* lies in Ok, giving up after n steps; the while loops over the seats.
RECURSIVE ScanFrom(_, _, _)
ScanFrom(i, n, Ok) ==
  IF n = 0 \/ i \in Ok THEN i ELSE ScanFrom((i + 1) % NumSeats, n - 1, Ok)

\* ------------------------------------------------------------------------
\* startNewHand
\* ------------------------------------------------------------------------
cleanPlayer(p) ==
  IF p.chips = 0 /\ p.status # "spectator" THEN [p EXCEPT !.status = "spectator"]
  ELSE IF p.status = "bust" THEN [p EXCEPT !.status = "spectator"]
  ELSE [p EXCEPT !.status = "active", !.currentBet = 0, !.totalInvested = 0,
                 !.hand = <<>>, !.lastAction = "none"]

\* Post Blinds: the seat pays the blind, capped by its stack.
postedMutant(chips, blind) == blind
postedOf(chips, blind) == Min(chips, blind)

postBlind(p, blind) ==
  LET posted == postedOf(p.chips, blind)
      q == [p EXCEPT !.chips = p.chips - posted, !.currentBet = posted,
                     !.totalInvested = posted]
  IN IF q.chips = 0 THEN [q EXCEPT !.status = "all-in"] ELSE q

\* The dealer button moves to the next seat that is not a spectator.
nextDealerMutant(dealerIndex, NotSpectator) == (dealerIndex + 1) % NumSeats
nextDealerOf(dealerIndex, NotSpectator) ==
  ScanFrom((dealerIndex + 1) % NumSeats, NumSeats, NotSpectator)

\* The seats found by scanning upward from the dealer, skipping spectators.
sbScan(nextDealer, NotSpectator) ==
  ScanFrom((nextDealer + 1) % NumSeats, NumSeats, NotSpectator)
bbScan(nextDealer, NotSpectator) ==
  ScanFrom((sbScan(nextDealer, NotSpectator) + 1) % NumSeats, NumSeats, NotSpectator)
utgScan(nextDealer, NotSpectator) ==
  ScanFrom((bbScan(nextDealer, NotSpectator) + 1) % NumSeats, NumSeats, NotSpectator)

\* Head-up adjustment: with two active seats the dealer is the small blind
\* and acts first, and the big blind is the seat next to the dealer.
sbIndexOf(nextDealer, activeCount, NotSpectator) ==
  IF activeCount = 2 THEN nextDealer ELSE sbScan(nextDealer, NotSpectator)
bbIndexOf(nextDealer, activeCount, NotSpectator) ==
  IF activeCount = 2 THEN (nextDealer + 1) % NumSeats
  ELSE bbScan(nextDealer, NotSpectator)
utgIndexOf(nextDealer, activeCount, NotSpectator) ==
  IF activeCount = 2 THEN nextDealer ELSE utgScan(nextDealer, NotSpectator)

\* activeIndices: the seats startNewHand deals two hole cards to.
dealtIn(prev) ==
  WithStatus([i \in Seats |-> cleanPlayer(prev.players[i])], "active")

\* The state returned by the updater of startNewHand; prev itself when the
\* session is over (the caller then reloads the page).
startNewHand(prev, draws) ==
  LET cleaned == [i \in Seats |-> cleanPlayer(prev.players[i])]
      activeSet == dealtIn(prev)
      activeCount == Cardinality(activeSet)
      NotSpectator == {i \in Seats : cleaned[i].status # "spectator"}
      nextDealer == nextDealerOf(prev.dealerIndex, NotSpectator)
      deck == shuffleDeck(createDeck, draws)
      \* position of seat i among the active seats, in seat order
      Ord(i) == Cardinality({k \in activeSet : k < i})
      dealt == [i \in Seats |->
                 IF i \in activeSet
                   THEN [cleaned[i] EXCEPT
                           !.hand = <<deck[52 - 2 * Ord(i)], deck[51 - 2 * Ord(i)]>>]
                   ELSE cleaned[i]]
      deckLeft == SubSeq(deck, 1, 52 - 2 * activeCount)
      sbIndex == sbIndexOf(nextDealer, activeCount, NotSpectator)
      bbIndex == bbIndexOf(nextDealer, activeCount, NotSpectator)
      utgIndex == utgIndexOf(nextDealer, activeCount, NotSpectator)
      afterSb == [dealt EXCEPT ![sbIndex] = postBlind(dealt[sbIndex], SB_AMOUNT)]
      afterBb == [afterSb EXCEPT ![bbIndex] = postBlind(afterSb[bbIndex], BB_AMOUNT)]
      sbPosted == afterSb[sbIndex].currentBet
      bbPosted == afterBb[bbIndex].currentBet
  IN
  IF cleaned[0].status = "spectator" THEN prev
  ELSE IF activeCount < 2 THEN prev
  ELSE [prev EXCEPT
          !.players = afterBb,
          !.deck = deckLeft,
          !.communityCards = <<>>,
          !.pot = sbPosted + bbPosted,
          !.currentBet = BB_AMOUNT,
          !.minRaise = BB_AMOUNT,
          !.dealerIndex = nextDealer,
          !.currentPlayerIndex = utgIndex,
          !.stage = "preflop",
          !.lastAggressorIndex = NoAggressor,
          !.winners = <<>>,
          !.isThinking = FALSE]

\* The seats startNewHand takes the small and the big blind from.
blindsOf(prev) ==
  LET NotSpectator == {i \in Seats : cleanPlayer(prev.players[i]).status # "spectator"}
      nextDealer == nextDealerOf(prev.dealerIndex, NotSpectator)
      activeCount == Cardinality(dealtIn(prev))
  IN [sb |-> sbIndexOf(nextDealer, activeCount, NotSpectator),
      bb |-> bbIndexOf(nextDealer, activeCount, NotSpectator)]

\* Whether startNewHand ends the session instead of starting a hand.
sessionOver(prev) ==
  LET cleaned == [i \in Seats |-> cleanPlayer(prev.players[i])]
  IN \/ cleaned[0].status = "spectator"
     \/ Cardinality(WithStatus(cleaned, "active")) < 2

\* ------------------------------------------------------------------------
\* determineWinner
\* ------------------------------------------------------------------------
\* Seats that are neither folded, spectator nor bust.
notFoldedSeats(players) ==
  {i \in Seats : players[i].status \notin {"folded", "spectator", "bust"}}

scoreOf(state, i) == evaluateHand(state.players[i].hand, state.communityCards).score

\* The share of each of k tying winners.
winAmountMutant(pot, k) == pot
winAmountOf(pot, k) == pot \div k

\* The seats of notFolded holding the best of the scores.
tyingWinnersOf(notFolded, scores) ==
  {i \in notFolded : \A k \in notFolded : scores[k] <= scores[i]}

\* Distribute Chips: every seat of ids receives amount.
distribute(state, ids, amount) ==
  [state EXCEPT
     !.players = [i \in Seats |->
                    IF i \in ids
                      THEN [state.players[i] EXCEPT !.chips = @ + amount]
                      ELSE state.players[i]],
     !.stage = "gameOver",
     !.winners = <<[ids |-> ids, amount |-> amount]>>,
     !.pot = 0]

\* The pot goes to notFolded[0], the lowest such seat (the players being in
\* seat order), without evaluation.
winByFold(state, notFolded) ==
  distribute(state, {i \in notFolded : \A k \in notFolded : i <= k}, state.pot)

\* The pot is split between the seats tying for the best score.
winByScore(state, tyingWinners) ==
  distribute(state, tyingWinners,
             winAmountOf(state.pot, Cardinality(tyingWinners)))

determineWinner(state, byFold) ==
  IF byFold \/ Cardinality(notFoldedSeats(state.players)) = 1
    THEN winByFold(state, notFoldedSeats(state.players))
    ELSE winByScore(state,
           tyingWinnersOf(notFoldedSeats(state.players),
                          [i \in notFoldedSeats(state.players) |->
                             scoreOf(state, i)]))

\* ------------------------------------------------------------------------
\* nextStreet
\* ------------------------------------------------------------------------
resetForStreetMutant(p) == [p EXCEPT !.currentBet = 0, !.lastAction = "none"]
resetForStreet(p) ==
  [p EXCEPT !.currentBet = 0,
            !.lastAction = IF p.status = "active" THEN "none" ELSE p.lastAction]

\* The deck is popped from its end: n cards are burnt or revealed.
poppedMutant(deck, n) == SubSeq(deck, 1, Len(deck) - n + 1)
popped(deck, n) == SubSeq(deck, 1, Len(deck) - n)

\* First active seat after the dealer; with fewer than two active seats the
\* loop body runs at most once.
firstActorOf(players, dealerIndex) ==
  LET start == (dealerIndex + 1) % NumSeats
      active == WithStatus(players, "active")
  IN IF start \in active THEN start
     ELSE IF Cardinality(active) < 2 THEN (start + 1) % NumSeats
     ELSE ScanFrom(start, NumSeats, active)

nextStreet(state) ==
  LET playersReset == [i \in Seats |-> resetForStreet(state.players[i])]
      deck == state.deck
      n == Len(deck)
      nextStage == CASE state.stage = "preflop" -> "flop"
                     [] state.stage = "flop" -> "turn"
                     [] state.stage = "turn" -> "river"
                     [] OTHER -> state.stage
      revealed == CASE state.stage = "preflop" -> <<deck[n - 1], deck[n - 2], deck[n - 3]>>
                    [] state.stage = "flop" -> <<deck[n - 1]>>
                    [] state.stage = "turn" -> <<deck[n - 1]>>
                    [] OTHER -> <<>>
      used == CASE state.stage = "preflop" -> 4
                [] state.stage = "flop" -> 2
                [] state.stage = "turn" -> 2
                [] OTHER -> 0
  IN IF state.stage = "river"
       THEN determineWinner([state EXCEPT !.players = playersReset,
                                          !.stage = "showdown"], FALSE)
       ELSE [state EXCEPT
               !.players = playersReset,
               !.stage = nextStage,
               !.communityCards = state.communityCards \o revealed,
               !.deck = popped(deck, used),
               !.currentPlayerIndex = firstActorOf(playersReset, state.dealerIndex),
               !.currentBet = 0,
               !.minRaise = BB_AMOUNT]

\* ------------------------------------------------------------------------
\* advanceTurn
\* ------------------------------------------------------------------------
\* notFolded.length === 1: exactly one seat is active or all-in.
everyoneFoldedMutant(players) ==
  Cardinality(WithStatus(players, "active")) = 1
everyoneFolded(players) ==
  Cardinality(WithStatus(players, "active"))
    + Cardinality(WithStatus(players, "all-in")) = 1

\* allMatched: every active seat's bet equals the table bet-to-match.
allMatchedMutant(prev) ==
  \A i \in WithStatus(prev.players, "active") \cup WithStatus(prev.players, "all-in") :
     prev.players[i].currentBet = prev.currentBet
allMatched(prev) ==
  \A i \in WithStatus(prev.players, "active") :
     prev.players[i].currentBet = prev.currentBet

\* everyoneActed: every active seat has a recorded action.
everyoneActedMutant(prev) == TRUE
everyoneActed(prev) ==
  \A i \in WithStatus(prev.players, "active") : prev.players[i].lastAction # "none"

\* allMatched && everyoneActed
roundClosed(prev) == allMatched(prev) /\ everyoneActed(prev)

\* Find next active player: the scan upward from the seat after the seat to
\* act, at most NumSeats steps.
nextIndexMutant(currentPlayerIndex, active) ==
  (currentPlayerIndex + 1) % NumSeats
nextIndexOf(currentPlayerIndex, active) ==
  ScanFrom((currentPlayerIndex + 1) % NumSeats, NumSeats, active)

advanceTurn(prev) ==
  LET active == WithStatus(prev.players, "active")
      nextIndex == nextIndexOf(prev.currentPlayerIndex, active)
  IN IF everyoneFolded(prev.players) THEN determineWinner(prev, TRUE)
     ELSE IF active = {} \/ roundClosed(prev) THEN nextStreet(prev)
     ELSE [prev EXCEPT !.currentPlayerIndex = nextIndex]

\* ------------------------------------------------------------------------
\* handleAction
\* ------------------------------------------------------------------------
\* An illegal check (a bet is owed) is executed as a fold.
safeActionMutant(action, toCall) ==
  IF action = "check" /\ toCall > 0 THEN "call" ELSE action
safeActionOf(action, toCall) ==
  IF action = "check" /\ toCall > 0 THEN "fold" ELSE action

\* What a call pays: the amount owed, capped by the stack.
actualCallMutant(toCall, chips) == toCall
actualCallOf(toCall, chips) == Min(toCall, chips)

\* What a raise pays: the difference to the intended total, capped by the stack.
actualAddedMutant(addedToPot, chips) == addedToPot
actualAddedOf(addedToPot, chips) == Min(addedToPot, chips)

\* Only a full raise sets the minimum raise increment.
newMinRaiseMutant(raiseDiff, minRaise) == raiseDiff
newMinRaiseOf(raiseDiff, minRaise) ==
  IF raiseDiff >= minRaise THEN raiseDiff ELSE minRaise

\* The table bet-to-match after a raise never goes down.
newCurrentBetMutant(currentBet, finalTotalBet) == finalTotalBet
newCurrentBetOf(currentBet, finalTotalBet) == Max(currentBet, finalTotalBet)

\* UPDATE AGGRESSOR: every raise, of whatever size, marks the raising seat.
newLastAggressorMutant(id, raiseDiff, minRaise, lastAggressorIndex) ==
  IF raiseDiff >= minRaise THEN id ELSE lastAggressorIndex
newLastAggressorOf(id, raiseDiff, minRaise, lastAggressorIndex) == id

\* amount = 0 stands for an absent (or zero) amount, which JavaScript's ||
\* replaces by the minimum legal total.  The label of lastAction is kept
\* without the amount that a raise appends to it for display.
handleAction(prev, action, amount) ==
  LET cpi == prev.currentPlayerIndex
      player == prev.players[cpi]
      toCall == prev.currentBet - player.currentBet
      safeAction == safeActionOf(action, toCall)
      allInIfEmpty(q) == IF q.chips = 0 THEN [q EXCEPT !.status = "all-in"] ELSE q
      actualCall == actualCallOf(toCall, player.chips)
      totalBet == IF amount # 0 THEN amount ELSE prev.currentBet + prev.minRaise
      addedToPot == totalBet - player.currentBet
      actualAdded == actualAddedOf(addedToPot, player.chips)
      finalTotalBet == player.currentBet + actualAdded
      raiseDiff == finalTotalBet - prev.currentBet
  IN CASE safeAction = "fold" ->
            [prev EXCEPT !.players[cpi] =
                [player EXCEPT !.status = "folded", !.lastAction = "Fold"]]
       [] safeAction = "check" ->
            [prev EXCEPT !.players[cpi] = [player EXCEPT !.lastAction = "Check"]]
       [] safeAction = "call" ->
            [prev EXCEPT
               !.players[cpi] = allInIfEmpty(
                  [player EXCEPT !.chips = player.chips - actualCall,
                                 !.currentBet = player.currentBet + actualCall,
                                 !.totalInvested = player.totalInvested + actualCall,
                                 !.lastAction = "Call"]),
               !.pot = prev.pot + actualCall]
       [] safeAction = "raise" ->
            [prev EXCEPT
               !.players[cpi] = allInIfEmpty(
                  [player EXCEPT !.chips = player.chips - actualAdded,
                                 !.currentBet = finalTotalBet,
                                 !.totalInvested = player.totalInvested + actualAdded,
                                 !.lastAction = "Raise"]),
               !.pot = prev.pot + actualAdded,
               !.currentBet = newCurrentBetOf(prev.currentBet, finalTotalBet),
               !.minRaise = newMinRaiseOf(raiseDiff, prev.minRaise),
               !.lastAggressorIndex =
                  newLastAggressorOf(cpi, raiseDiff, prev.minRaise,
                                     prev.lastAggressorIndex)]

\* ------------------------------------------------------------------------
\* getAIDecision: the sanitizer applied to whatever the strategy returned
\* ------------------------------------------------------------------------
\* snap is the closure of the decision callback: the seat the decision was
\* requested for and the table as rendered then.  raw is the strategy's
\* decision; worth is isWorthCalling.
\* 1. Prevent Illegal Checks: a check while chips are owed becomes a call
\* or a fold.
legalActionMutant(action, toCall, worth) == action
legalActionOf(action, toCall, worth) ==
  IF action = "check" /\ toCall > 0
    THEN (IF worth THEN "call" ELSE "fold")
    ELSE action

\* 3. Fix Raise Sizing: the target is lifted to the preferred minimum, then
\* to the legal minimum, then capped by what the seat can put in.
targetAmountOf(amount, tableBet, minRaise, maxChips) ==
  LET minLegalRaiseTotal == tableBet + minRaise
      preferredMinRaise == tableBet + 2 * minRaise
      t1 == IF amount < preferredMinRaise THEN preferredMinRaise ELSE amount
      t2 == IF t1 < minLegalRaiseTotal THEN minLegalRaiseTotal ELSE t1
      t3 == IF t2 > maxChips THEN maxChips ELSE t2
  IN IF maxChips >= minLegalRaiseTotal /\ t3 < minLegalRaiseTotal
       THEN minLegalRaiseTotal ELSE t3

getAIDecision(snap, raw, worth) ==
  LET action == legalActionOf(raw.action, snap.tableBet - snap.currentBet, worth)
  IN IF action = "raise"
       THEN [action |-> "raise",
             amount |-> targetAmountOf(raw.amount, snap.tableBet, snap.minRaise,
                                       snap.chips + snap.currentBet)]
       ELSE [action |-> action, amount |-> raw.amount]

\* What a strategy may return: any action, with no amount or a large one.
RawActions == {"check", "call", "fold", "raise"}
RawAmounts == {0, STARTING_CHIPS}

\* Positions the human's raise slider may have been left at.
SliderValues == {2 * BB_AMOUNT, STARTING_CHIPS}

\* ------------------------------------------------------------------------
\* The render effect and the callbacks
\* ------------------------------------------------------------------------
effectDeps(g) == <<g.currentPlayerIndex, g.stage, g.currentBet>>

\* The effect asks for a decision of the automated seat to act.
asksDecision(old, new) ==
  /\ effectDeps(old) # effectDeps(new)
  /\ new.stage \in BettingStages
  /\ new.currentPlayerIndex \in Seats
  /\ new.currentPlayerIndex # 0
  /\ new.players[new.currentPlayerIndex].status = "active"
  /\ ~new.isThinking

\* The effect schedules advanceTurn because no seat is active.
autoAdvancesMutant(old, new) == FALSE
autoAdvances(old, new) ==
  /\ effectDeps(old) # effectDeps(new)
  /\ ~asksDecision(old, new)
  /\ new.stage \in BettingStages
  /\ WithStatus(new.players, "active") = {}

\* The closure of the decision callback: the seat to act and the table as
\* rendered when the decision was requested, with the mode selected then;
\* awaiting says that the callback has called the external service and waits
\* for its answer.  after is the number of
\* advanceTurn timers set by handleAction (500 ms) that were pending then;
\* they expire before the decision timer (800 ms or more) does.
closureOf(g, ahead) ==
  LET i == g.currentPlayerIndex
  IN [seat |-> i, chips |-> g.players[i].chips,
      currentBet |-> g.players[i].currentBet,
      tableBet |-> g.currentBet, minRaise |-> g.minRaise, after |-> ahead,
      gameMode |-> g.gameMode, awaiting |-> FALSE]

RemoveAt(s, k) == SubSeq(s, 1, k - 1) \o SubSeq(s, k + 1, Len(s))

\* A state update old -> new is rendered and the effect runs on the result.
\* scheduled is the number of advanceTurn timers the callback itself set
\* through handleAction, pending the decision callbacks still pending.
Render(old, new, scheduled, pending) ==
  /\ gameState' = IF asksDecision(old, new)
                    THEN [new EXCEPT !.isThinking = TRUE] ELSE new
  /\ actionTimers' = actionTimers + scheduled
  /\ decisionTimers' = IF asksDecision(old, new)
                         THEN Append(pending, closureOf(new, actionTimers'))
                         ELSE pending
  /\ autoTimers' = autoTimers + (IF autoAdvances(old, new) THEN 1 ELSE 0)
  /\ actionTimers' + autoTimers' <= MaxAdvanceTimers
  /\ Len(decisionTimers') <= MaxDecisionTimers

\* The "Next Hand" button.
StartNewHand ==
  /\ ~reloading
  /\ gameState.stage = "gameOver"
  /\ ~handStarted
  /\ handStarted' = TRUE
  /\ chipsAtStart' = TableChips(gameState)
  /\ dealtSeats' = IF sessionOver(gameState) THEN {}
                   ELSE dealtIn(gameState)
  /\ blindSeats' = IF sessionOver(gameState) THEN blindSeats
                   ELSE blindsOf(gameState)
  /\ UNCHANGED probe
  /\ op' = [name |-> "startNewHand", seat |-> NoSeat, action |-> "none",
            amount |-> 0, was |-> "none", tableBet |-> 0]
  /\ IF sessionOver(gameState)
       THEN /\ reloading' = TRUE
            /\ UNCHANGED <<gameState, actionTimers, autoTimers, decisionTimers>>
       ELSE /\ \E draws \in RandomDraws :
                 Render(gameState, startNewHand(gameState, draws), 0, decisionTimers)
            /\ UNCHANGED reloading

\* The human's buttons: FOLD, CHECK or CALL, RAISE.
HumanAction ==
  /\ ~reloading
  /\ gameState.currentPlayerIndex = 0
  /\ gameState.stage # "gameOver"
  /\ LET user == gameState.players[0]
         toCall == gameState.currentBet - user.currentBet
     IN \E a \in {"fold", "checkOrCall", "raise"}, r \in SliderValues :
          LET action == IF a = "checkOrCall"
                          THEN (IF toCall = 0 THEN "check" ELSE "call") ELSE a
              amount == IF a = "raise"
                          THEN Max(gameState.currentBet + gameState.minRaise, r)
                          ELSE 0
          IN /\ a = "raise" => user.chips > toCall
             /\ a # "raise" => r = 2 * BB_AMOUNT
             /\ Render(gameState, handleAction(gameState, action, amount), 1,
                       decisionTimers)
             /\ op' = [name |-> "handleAction", seat |-> 0, action |-> action,
                       amount |-> amount, was |-> user.status,
                       tableBet |-> gameState.currentBet]
  /\ UNCHANGED <<handStarted, reloading, chipsAtStart, dealtSeats, blindSeats, probe>>

\* The rest of the callback of decision timer k once the provider has
\* returned: the decision is sanitized with the closure's seat and table,
\* the thinking flag is cleared and the action is applied to whichever seat
\* is to act now.
Decides(k) ==
  \E ra \in RawActions, rm \in RawAmounts, worth \in BOOLEAN :
    LET snap == decisionTimers[k]
        d == getAIDecision(snap, [action |-> ra, amount |-> rm], worth)
        cleared == [gameState EXCEPT !.isThinking = FALSE]
    IN /\ ra # "raise" => rm = 0
       /\ (ra = "check" /\ snap.tableBet > snap.currentBet) \/ worth
       /\ Render(gameState, handleAction(cleared, d.action, d.amount), 1,
                 RemoveAt(decisionTimers, k))
       /\ op' = [name |-> "handleAction", seat |-> gameState.currentPlayerIndex,
                 action |-> d.action, amount |-> d.amount,
                 was |-> gameState.players[gameState.currentPlayerIndex].status,
                 tableBet |-> gameState.currentBet]

\* The callback of a decision timer, run to its end: the provider returns
\* and the decision is applied.
AIAction ==
  /\ ~reloading
  /\ gameState.currentPlayerIndex \in Seats
  /\ \E k \in DOMAIN decisionTimers :
       /\ decisionTimers[k].after = 0
       /\ Decides(k)
  /\ UNCHANGED <<handStarted, reloading, chipsAtStart, dealtSeats, blindSeats, probe>>

\* The callback of an advanceTurn timer set by handleAction.  The timers of
\* handleAction expire in the order they were set, so every pending
\* decision has one timer less ahead of it.
AdvanceTurnAfterAction ==
  /\ ~reloading
  /\ actionTimers > 0
  /\ Render(gameState, advanceTurn(gameState), -1,
            [k \in DOMAIN decisionTimers |->
               [decisionTimers[k] EXCEPT !.after = Max(0, @ - 1)]])
  /\ op' = [name |-> "advanceTurn", seat |-> gameState.currentPlayerIndex,
            action |-> "none", amount |-> 0, was |-> "none",
            tableBet |-> gameState.currentBet]
  /\ UNCHANGED <<handStarted, reloading, chipsAtStart, dealtSeats, blindSeats, probe>>

\* The callback of an advanceTurn timer set by the effect (1000 ms).
AdvanceTurnAuto ==
  /\ ~reloading
  /\ autoTimers > 0
  /\ LET new == advanceTurn(gameState)
     IN /\ gameState' = IF asksDecision(gameState, new)
                          THEN [new EXCEPT !.isThinking = TRUE] ELSE new
        /\ decisionTimers' = IF asksDecision(gameState, new)
                               THEN Append(decisionTimers, closureOf(new, actionTimers))
                               ELSE decisionTimers
        /\ autoTimers' = autoTimers - 1
                           + (IF autoAdvances(gameState, new) THEN 1 ELSE 0)
        /\ Len(decisionTimers') <= MaxDecisionTimers
  /\ op' = [name |-> "advanceTurn", seat |-> gameState.currentPlayerIndex,
            action |-> "none", amount |-> 0, was |-> "none",
            tableBet |-> gameState.currentBet]
  /\ UNCHANGED <<handStarted, reloading, chipsAtStart, dealtSeats, blindSeats, probe, actionTimers>>

Next ==
  \/ StartNewHand
  \/ HumanAction
  \/ AIAction
  \/ AdvanceTurnAfterAction
  \/ AdvanceTurnAuto

Spec == Init /\ [][Next]_vars

\* ------------------------------------------------------------------------
\* The decision callback step by step, with the external service
\* ------------------------------------------------------------------------
\* The mode is chosen before the hand; with mode online the API key is
\* present and the client exists.  The human holds chips, seat 1 holds a
\* full stack and seat 3 a full stack or none.
InitLive ==
  /\ \E stacks \in [InitSeats -> InitStacks], mode \in GameModes :
       /\ stacks[0] > 0
       /\ stacks[1] = 25
       /\ stacks[3] # 3
       /\ gameState = BetweenHands(stacks, {}, 0, mode)
  /\ Quiet
  /\ probe = NoProbe

\* Mode offline: the decision timer expires, getOfflineDecision returns at
\* once and the callback runs to its end.
DecideLocally ==
  /\ ~reloading
  /\ gameState.currentPlayerIndex \in Seats
  /\ \E k \in DOMAIN decisionTimers :
       /\ decisionTimers[k].after = 0
       /\ decisionTimers[k].gameMode = "offline"
       /\ Decides(k)
  /\ UNCHANGED <<handStarted, reloading, chipsAtStart, dealtSeats, blindSeats, probe>>

\* Mode online: the decision timer expires and the callback awaits
\* generateContent.
CallService ==
  /\ ~reloading
  /\ \E k \in DOMAIN decisionTimers :
       /\ decisionTimers[k].after = 0
       /\ decisionTimers[k].gameMode = "online"
       /\ ~decisionTimers[k].awaiting
       /\ decisionTimers' = [decisionTimers EXCEPT ![k].awaiting = TRUE]
  /\ UNCHANGED <<gameState, actionTimers, autoTimers, handStarted, reloading,
                 chipsAtStart, dealtSeats, blindSeats, probe, op>>

\* The service answers with a decision object, which JSON.parse returns.
ServiceAnswers ==
  /\ ~reloading
  /\ gameState.currentPlayerIndex \in Seats
  /\ \E k \in DOMAIN decisionTimers :
       /\ decisionTimers[k].awaiting
       /\ Decides(k)
  /\ UNCHANGED <<handStarted, reloading, chipsAtStart, dealtSeats, blindSeats, probe>>

\* generateContent rejects or JSON.parse throws: the catch block takes the
\* decision of getOfflineDecision.
ServiceFails ==
  /\ ~reloading
  /\ gameState.currentPlayerIndex \in Seats
  /\ \E k \in DOMAIN decisionTimers :
       /\ decisionTimers[k].awaiting
       /\ Decides(k)
  /\ UNCHANGED <<handStarted, reloading, chipsAtStart, dealtSeats, blindSeats, probe>>

\* The service answers the JSON text null: JSON.parse returns null, reading
\* decision.action throws outside the try block and the callback ends
\* without clearing the thinking flag or applying an action.
ServiceAnswersNull ==
  /\ ~reloading
  /\ \E k \in DOMAIN decisionTimers :
       /\ decisionTimers[k].awaiting
       /\ decisionTimers' = RemoveAt(decisionTimers, k)
  /\ UNCHANGED <<gameState, actionTimers, autoTimers, handStarted, reloading,
                 chipsAtStart, dealtSeats, blindSeats, probe, op>>

NextLive ==
  \/ StartNewHand
  \/ HumanAction
  \/ DecideLocally
  \/ CallService
  \/ ServiceAnswers
  \/ ServiceFails
  \/ ServiceAnswersNull
  \/ AdvanceTurnAfterAction
  \/ AdvanceTurnAuto

\* Every timer set by the program expires and its callback runs; the human
\* and the external service are under no obligation.  A decision timer that
\* is due again and again does expire, however often the human presses a
\* button in between.  For the advanceTurn timers the same is stated on the
\* timer counts: a timer is not pending for ever without an advanceTurn
\* callback running.
TimersFire ==
  /\ []<>(actionTimers = 0) \/ []<><<AdvanceTurnAfterAction>>_vars
  /\ []<>(autoTimers = 0) \/ []<><<AdvanceTurnAuto>>_vars
  /\ SF_vars(DecideLocally)
  /\ SF_vars(CallService)

SpecLive == InitLive /\ [][NextLive]_vars /\ TimersFire

\* ------------------------------------------------------------------------
\* The sanitizer of getAIDecision on its own
\* ------------------------------------------------------------------------
\* The seat and table seen by a decision request, and what a strategy may
\* have returned for it.
SanChips == {0, 3, 25}
SanBets == {0, SB_AMOUNT, BB_AMOUNT}
SanTableBets == {0, BB_AMOUNT, 2 * BB_AMOUNT}
SanMinRaises == {BB_AMOUNT, 2 * BB_AMOUNT}
SanAmounts == {0, BB_AMOUNT + SB_AMOUNT, STARTING_CHIPS}

\* Nothing is going on at the table, as after construction.
TableIdle ==
  /\ gameState = INITIAL_STATE
  /\ Quiet

InitSanitizer ==
  /\ TableIdle
  /\ \E c \in SanChips, b \in SanBets, t \in SanTableBets, m \in SanMinRaises,
        ra \in RawActions, rm \in SanAmounts, w \in BOOLEAN :
       /\ b <= t
       /\ ra # "raise" => rm = 0
       /\ probe = [fn |-> "getAIDecision", done |-> FALSE,
                   snap |-> [seat |-> 1, chips |-> c, currentBet |-> b,
                             tableBet |-> t, minRaise |-> m, after |-> 0],
                   raw |-> [action |-> ra, amount |-> rm],
                   worth |-> w,
                   out |-> [action |-> "none", amount |-> 0]]

\* getAIDecision is applied to the request.
Sanitize ==
  /\ probe.fn = "getAIDecision"
  /\ ~probe.done
  /\ probe' = [probe EXCEPT !.done = TRUE,
                            !.out = getAIDecision(probe.snap, probe.raw, probe.worth)]
  /\ UNCHANGED <<gameState, actionTimers, autoTimers, decisionTimers, handStarted,
                 reloading, chipsAtStart, dealtSeats, blindSeats, op>>

SpecSanitizer == InitSanitizer /\ [][Sanitize]_vars

\* ------------------------------------------------------------------------
\* evaluateHand on its own
\* ------------------------------------------------------------------------
Card(v, s) == [suit |-> s, value |-> v]

\* Four ten-card parts of the deck from which the hands are taken: low
\* cards around the wheel with a three-of-a-kind and two pairs; hearts in
\* sequence with four kings; unconnected high cards with two pairs; two
\* three-of-a-kinds with a pair.
LowCards ==
  {Card(14, "spades"), Card(14, "hearts"), Card(2, "hearts"), Card(2, "diamonds"),
   Card(3, "diamonds"), Card(4, "clubs"), Card(5, "spades"), Card(5, "diamonds"),
   Card(5, "clubs"), Card(6, "hearts")}
SuitedCards ==
  {Card(13, "hearts"), Card(12, "hearts"), Card(11, "hearts"), Card(10, "hearts"),
   Card(9, "hearts"), Card(2, "hearts"), Card(13, "spades"), Card(13, "diamonds"),
   Card(13, "clubs"), Card(12, "spades")}
HighCards ==
  {Card(14, "spades"), Card(13, "diamonds"), Card(12, "clubs"), Card(9, "hearts"),
   Card(7, "spades"), Card(5, "diamonds"), Card(3, "clubs"), Card(2, "hearts"),
   Card(14, "diamonds"), Card(13, "hearts")}

PairedCards ==
  {Card(9, "spades"), Card(9, "diamonds"), Card(9, "clubs"), Card(4, "spades"),
   Card(4, "diamonds"), Card(4, "clubs"), Card(11, "hearts"), Card(11, "diamonds"),
   Card(2, "clubs"), Card(8, "spades")}

HandsOf(D, n) == {h \in SUBSET D : Cardinality(h) = n}

\* Two hole cards with the whole board.
SevenCardHands ==
  HandsOf(LowCards, 7) \cup HandsOf(SuitedCards, 7) \cup HandsOf(HighCards, 7)
    \cup HandsOf(PairedCards, 7)

\* Two hole cards with the flop or the turn.
ShortHands == HandsOf(PairedCards, 5) \cup HandsOf(PairedCards, 6)

\* The cards of a hand in the order they are held.
RECURSIVE CardsOf(_)
CardsOf(h) ==
  IF h = {} THEN <<>>
  ELSE LET c == CHOOSE x \in h : TRUE IN <<c>> \o CardsOf(h \ {c})

holeCardsOf(h) == SubSeq(CardsOf(h), 1, 2)
communityCardsOf(h) == SubSeq(CardsOf(h), 3, Cardinality(h))

NoRank == [rank |-> -1, score |-> -1]

\* Two hands of seven cards, or one hand of five or six.
InitEval ==
  /\ TableIdle
  /\ \/ \E a \in SevenCardHands, b \in SevenCardHands :
          probe = [fn |-> "evaluateHand", done |-> FALSE, a |-> a, b |-> b,
                   ra |-> NoRank, rb |-> NoRank]
     \/ \E a \in ShortHands :
          probe = [fn |-> "evaluateHand", done |-> FALSE, a |-> a, b |-> a,
                   ra |-> NoRank, rb |-> NoRank]

\* evaluateHand is applied to both hands.
Evaluate ==
  /\ probe.fn = "evaluateHand"
  /\ ~probe.done
  /\ probe' = [probe EXCEPT
                 !.done = TRUE,
                 !.ra = evaluateHand(holeCardsOf(probe.a), communityCardsOf(probe.a)),
                 !.rb = evaluateHand(holeCardsOf(probe.b), communityCardsOf(probe.b))]
  /\ UNCHANGED <<gameState, actionTimers, autoTimers, decisionTimers, handStarted,
                 reloading, chipsAtStart, dealtSeats, blindSeats, op>>

SpecEval == InitEval /\ [][Evaluate]_vars

\* ------------------------------------------------------------------------
\* Properties
\* ------------------------------------------------------------------------
Players == gameState.players
Stage == gameState.stage

\* The step is handleAction applied with action a; the seat it is applied
\* to is the seat to act before the step.
Applies(a) == op'.name = "handleAction" /\ op'.action = a

\* The step is a run of advanceTurn.
Advances == op'.name = "advanceTurn"

\* Seats still contending for the pot: active or all-in.
Contenders(g) == {i \in Seats : g.players[i].status \in {"active", "all-in"}}

\* The step distributes the pot at showdown (not by fold-win).
ShowdownStep ==
  /\ Advances
  /\ gameState.stage = "river"
  /\ gameState'.stage = "gameOver"
  /\ Cardinality(Contenders(gameState)) # 1

ThmC2 ==
  [][ (Applies("check")
         /\ gameState.currentBet > Players[gameState.currentPlayerIndex].currentBet)
      => /\ gameState'.players[gameState.currentPlayerIndex].status = "folded"
         /\ gameState'.pot = gameState.pot
         /\ \A j \in Seats :
              /\ gameState'.players[j].chips = Players[j].chips
              /\ gameState'.players[j].currentBet = Players[j].currentBet
         /\ gameState'.currentBet = gameState.currentBet
         /\ gameState'.minRaise = gameState.minRaise ]_vars

\* An active seat that owed chips was given a check and is folded.
WitC2 ==
  /\ op.name = "handleAction" /\ op.action = "check" /\ op.was = "active"
  /\ Stage \in BettingStages
  /\ op.tableBet > Players[op.seat].currentBet
  /\ Players[op.seat].status = "folded"

\* C3: a call moves exactly p = min(table bet-to-match - seat's bet, seat's
\* chips): the seat's chips decrease by p, the pot, the seat's bet and its
\* total invested increase by p, the seat is all-in afterwards exactly when
\* its chips are 0 (otherwise its status is unchanged), and the table
\* bet-to-match, the minimum raise increment and the last aggressor are
\* unchanged.
ThmC3 ==
  [][ Applies("call")
      => LET i == gameState.currentPlayerIndex
             p == Min(gameState.currentBet - Players[i].currentBet, Players[i].chips)
             q == gameState'.players[i]
         IN /\ q.chips = Players[i].chips - p
            /\ gameState'.pot = gameState.pot + p
            /\ q.currentBet = Players[i].currentBet + p
            /\ q.totalInvested = Players[i].totalInvested + p
            /\ q.status = (IF q.chips = 0 THEN "all-in" ELSE Players[i].status)
            /\ gameState'.currentBet = gameState.currentBet
            /\ gameState'.minRaise = gameState.minRaise
            /\ gameState'.lastAggressorIndex = gameState.lastAggressorIndex ]_vars

\* An active seat called for less than it owed and is all-in.
WitC3 ==
  /\ op.name = "handleAction" /\ op.action = "call" /\ op.was = "active"
  /\ Stage \in BettingStages
  /\ Players[op.seat].status = "all-in"
  /\ Players[op.seat].currentBet > 0
  /\ Players[op.seat].currentBet < gameState.currentBet

\* C4: a raise to the total amount moves exactly a = min(amount - seat's
\* bet, seat's chips) from the seat to the pot, the seat's bet and total
\* invested increase by a, the seat is all-in afterwards exactly when its
\* chips are 0, and the table bet-to-match becomes max(old table bet,
\* seat's new bet); within a street the table bet-to-match never decreases.
\* A raise given no amount (0 here) intends the minimum legal total, the
\* table bet-to-match plus the minimum raise increment.
ThmC4 ==
  [][ /\ Applies("raise")
         => LET i == gameState.currentPlayerIndex
                amount == IF op'.amount # 0 THEN op'.amount
                          ELSE gameState.currentBet + gameState.minRaise
                a == Min(amount - Players[i].currentBet, Players[i].chips)
                q == gameState'.players[i]
            IN /\ q.chips = Players[i].chips - a
               /\ gameState'.pot = gameState.pot + a
               /\ q.currentBet = Players[i].currentBet + a
               /\ q.totalInvested = Players[i].totalInvested + a
               /\ q.status = (IF q.chips = 0 THEN "all-in" ELSE Players[i].status)
               /\ gameState'.currentBet = Max(gameState.currentBet, q.currentBet)
      /\ (gameState.stage \in BettingStages /\ gameState'.stage = gameState.stage)
         => gameState'.currentBet >= gameState.currentBet ]_vars

\* An active seat raised to more than its stack allowed: it is all-in with
\* a bet below the amount asked for, and the table bet is its bet.
WitC4 ==
  /\ op.name = "handleAction" /\ op.action = "raise" /\ op.was = "active"
  /\ Stage \in BettingStages
  /\ Players[op.seat].status = "all-in"
  /\ Players[op.seat].currentBet < op.amount
  /\ Players[op.seat].currentBet > op.tableBet
  /\ gameState.currentBet = Players[op.seat].currentBet

\* C5: a raise whose increase over the previous table bet-to-match is at
\* least the minimum raise increment sets the increment to that increase;
\* an under-sized raise moves its chips and leaves the increment unchanged.
\* Within a street the increment never decreases, and it is never below
\* the big blind.
ThmC5 ==
  [][ /\ Applies("raise")
         => LET i == gameState.currentPlayerIndex
                q == gameState'.players[i]
                increase == q.currentBet - gameState.currentBet
                moved == Players[i].chips - q.chips
            IN /\ moved = q.currentBet - Players[i].currentBet
               /\ gameState'.pot = gameState.pot + moved
               /\ gameState'.minRaise = (IF increase >= gameState.minRaise
                                           THEN increase ELSE gameState.minRaise)
      /\ (gameState.stage \in BettingStages /\ gameState'.stage = gameState.stage)
         => gameState'.minRaise >= gameState.minRaise
      /\ gameState.minRaise >= BB_AMOUNT
      /\ gameState'.minRaise >= BB_AMOUNT ]_vars

\* An active seat went all-in with a raise smaller than the increment: the
\* table bet rose by less than the minimum raise increment, which stands.
WitC5 ==
  /\ op.name = "handleAction" /\ op.action = "raise" /\ op.was = "active"
  /\ Stage \in BettingStages
  /\ Players[op.seat].status = "all-in"
  /\ gameState.currentBet > op.tableBet
  /\ gameState.currentBet - op.tableBet < gameState.minRaise

\* The street after a betting stage.
StageAfter(st) ==
  CASE st = "preflop" -> "flop"
    [] st = "flop" -> "turn"
    [] st = "turn" -> "river"
    [] OTHER -> "gameOver"

\* Every active seat has matched the table bet and has a recorded action.
AllMatchedAndActed(g) ==
  \A i \in Seats :
     g.players[i].status = "active"
       => /\ g.players[i].currentBet = g.currentBet
          /\ g.players[i].lastAction # "none"

\* C6: when advanceTurn runs in a betting stage with at least two seats
\* active or all-in, and every active seat has matched the table bet and has
\* a recorded action, the street advances: after the river the pot is
\* distributed at showdown, otherwise the next street is dealt with every
\* current-street bet and the table bet-to-match reset to 0.
ThmC6 ==
  [][ (/\ Advances
       /\ gameState.stage \in BettingStages
       /\ Cardinality(Contenders(gameState)) >= 2
       /\ AllMatchedAndActed(gameState))
      => /\ gameState'.stage = StageAfter(gameState.stage)
         /\ IF gameState.stage = "river"
              THEN gameState'.pot = 0 /\ Len(gameState'.winners) = 1
              ELSE /\ \A i \in Seats : gameState'.players[i].currentBet = 0
                   /\ gameState'.currentBet = 0
                   /\ Len(gameState'.communityCards)
                        > Len(gameState.communityCards) ]_vars

\* Three active seats have each put in the big blind and acted, and
\* advanceTurn has dealt the flop with all bets reset.
WitC6 ==
  /\ op.name = "advanceTurn"
  /\ Stage = "flop"
  /\ Len(gameState.communityCards) = 3
  /\ gameState.currentBet = 0
  /\ Cardinality({i \in Seats : /\ Players[i].status = "active"
                                /\ Players[i].totalInvested = BB_AMOUNT
                                /\ Players[i].currentBet = 0}) = 3

\* C7: while some active seat has a bet below the table bet-to-match or has
\* no recorded action on this street, advanceTurn does not advance the
\* street: no card is revealed and the stage stays, unless the hand ends
\* because all seats but one have folded.
ThmC7 ==
  [][ (/\ Advances
       /\ gameState.stage \in BettingStages
       /\ \E i \in Seats :
            /\ Players[i].status = "active"
            /\ \/ Players[i].currentBet < gameState.currentBet
               \/ Players[i].lastAction = "none")
      => /\ gameState'.communityCards = gameState.communityCards
         /\ \/ gameState'.stage = gameState.stage
            \/ /\ gameState'.stage = "gameOver"
               /\ Cardinality(Contenders(gameState)) = 1 ]_vars

\* Preflop every seat has matched the big blind, all but the big-blind seat
\* have called, and advanceTurn has passed the turn to the big-blind seat,
\* which has not acted yet.
WitC7 ==
  /\ op.name = "advanceTurn"
  /\ Stage = "preflop"
  /\ gameState.currentPlayerIndex \in Seats
  /\ LET b == gameState.currentPlayerIndex
     IN /\ Players[b].status = "active"
        /\ Players[b].lastAction = "none"
        /\ Players[b].totalInvested = BB_AMOUNT
        /\ Cardinality(WithStatus(Players, "active")) >= 2
        /\ \A i \in WithStatus(Players, "active") :
             /\ Players[i].currentBet = gameState.currentBet
             /\ i # b => Players[i].lastAction = "Call"

\* C8: when advanceTurn runs with exactly one seat active or all-in, the
\* hand ends at once: that seat's chips grow by the whole pot, every other
\* stack is unchanged, no card is revealed or taken from the deck, the
\* winner record names that seat alone with the whole pot, the pot is 0 and
\* the stage is game-over.
ThmC8 ==
  [][ (Advances /\ Cardinality(Contenders(gameState)) = 1)
      => LET w == CHOOSE i \in Seats : i \in Contenders(gameState)
         IN /\ gameState'.players[w].chips = Players[w].chips + gameState.pot
            /\ \A j \in Seats \ {w} : gameState'.players[j].chips = Players[j].chips
            /\ gameState'.communityCards = gameState.communityCards
            /\ gameState'.deck = gameState.deck
            /\ gameState'.winners = <<[ids |-> {w}, amount |-> gameState.pot]>>
            /\ gameState'.pot = 0
            /\ gameState'.stage = "gameOver" ]_vars

\* Two seats have folded before the river and advanceTurn has given the
\* whole pot to the one seat left.
WitC8 ==
  /\ op.name = "advanceTurn"
  /\ Stage = "gameOver"
  /\ Len(gameState.communityCards) < 5
  /\ Cardinality(WithStatus(Players, "folded")) = 2
  /\ Cardinality(Contenders(gameState)) = 1
  /\ Len(gameState.winners) = 1
  /\ gameState.winners[1].amount > BB_AMOUNT
  /\ gameState.pot = 0
  /\ TableChips(gameState) = chipsAtStart

\* Score of seat i from its hole cards and the community cards of g.
Score(g, i) == evaluateHand(g.players[i].hand, g.communityCards).score

\* The seats among S with the greatest score.
Best(g, S) == {i \in S : \A j \in S : Score(g, j) <= Score(g, i)}

\* C9: at showdown, with k seats tying for the best score, each of them
\* receives exactly floor(pot / k), nobody else receives anything, the pot
\* becomes 0 and the remainder pot mod k is awarded to nobody.
ThmC9 ==
  [][ ShowdownStep
      => LET tying == Best(gameState, Contenders(gameState))
             k == Cardinality(tying)
         IN /\ k >= 1
            /\ \A i \in tying :
                 gameState'.players[i].chips = Players[i].chips + (gameState.pot \div k)
            /\ \A j \in Seats \ tying :
                 gameState'.players[j].chips = Players[j].chips
            /\ gameState'.pot = 0
            /\ TableChips(gameState') = TableChips(gameState) - (gameState.pot % k) ]_vars

\* Two seats tied at showdown for an odd pot: each got the same share and
\* one chip is gone.
WitC9 ==
  /\ op.name = "advanceTurn"
  /\ Stage = "gameOver"
  /\ Len(gameState.communityCards) = 5
  /\ Len(gameState.winners) = 1
  /\ Cardinality(gameState.winners[1].ids) = 2
  /\ gameState.winners[1].amount > 0
  /\ chipsAtStart - TableChips(gameState) = 1

\* Seats dealt into the hand that have not folded.
DealtIn(g) ==
  {i \in dealtSeats : g.players[i].status \notin {"folded", "spectator", "bust"}}

\* C10 as stated: at showdown the seats whose chips increase are exactly the
\* seats dealt into the hand, not folded, whose score is the maximum among
\* such seats; folded and spectator seats keep their chips.
CexC10 ==
  [][ ShowdownStep
      => /\ {i \in Seats : gameState'.players[i].chips > Players[i].chips}
              = Best(gameState, DealtIn(gameState))
         /\ \A j \in Seats :
              Players[j].status \in {"folded", "spectator"}
                => gameState'.players[j].chips = Players[j].chips ]_vars

\* The step is startNewHand starting a hand (not ending the session).
HandStarts == op'.name = "startNewHand" /\ gameState'.stage = "preflop"

\* C11 as stated: when a hand starts with exactly two active seats, the
\* dealer seat posts the small blind and is first to act preflop, and the
\* other active seat posts the big blind.
CexC11 ==
  [][ (HandStarts /\ Cardinality(dealtSeats') = 2)
      => LET d == gameState'.dealerIndex
             other == CHOOSE j \in dealtSeats' : j # d
         IN /\ d \in dealtSeats'
            /\ blindSeats'.sb = d
            /\ gameState'.currentPlayerIndex = d
            /\ blindSeats'.bb = other ]_vars

\* C12: when a hand starts, the small-blind seat pays min(its stack, small
\* blind) and the big-blind seat pays min(its stack, big blind); each
\* payment is that seat's current-street bet and total invested; a poster
\* left with 0 chips is all-in; no other stack changes; the pot is the sum
\* of the two payments; the table bet-to-match and the minimum raise
\* increment are the big blind; the stage is preflop with no community card.
ThmC12 ==
  [][ HandStarts
      => LET sb == blindSeats'.sb
             bb == blindSeats'.bb
             sbPaid == Min(Players[sb].chips, SB_AMOUNT)
             bbPaid == Min(Players[bb].chips, BB_AMOUNT)
             q == gameState'.players
         IN /\ sb # bb
            /\ q[sb].chips = Players[sb].chips - sbPaid
            /\ q[sb].currentBet = sbPaid /\ q[sb].totalInvested = sbPaid
            /\ q[bb].chips = Players[bb].chips - bbPaid
            /\ q[bb].currentBet = bbPaid /\ q[bb].totalInvested = bbPaid
            /\ \A i \in {sb, bb} : q[i].chips = 0 => q[i].status = "all-in"
            /\ \A j \in Seats \ {sb, bb} : q[j].chips = Players[j].chips
            /\ gameState'.pot = sbPaid + bbPaid
            /\ gameState'.currentBet = BB_AMOUNT
            /\ gameState'.minRaise = BB_AMOUNT
            /\ gameState'.stage = "preflop"
            /\ gameState'.communityCards = <<>> ]_vars

\* A hand has just started whose big-blind seat held fewer chips than the
\* big blind: it paid its whole stack and is all-in, the small blind was
\* paid in full, and the pot is below the two blinds.
WitC12 ==
  /\ op.name = "startNewHand" /\ Stage = "preflop"
  /\ Players[blindSeats.bb].status = "all-in"
  /\ Players[blindSeats.bb].totalInvested > 0
  /\ Players[blindSeats.bb].totalInvested < BB_AMOUNT
  /\ Players[blindSeats.sb].totalInvested = SB_AMOUNT
  /\ gameState.pot = SB_AMOUNT + Players[blindSeats.bb].totalInvested

\* C20 as stated: in every hand that is started the seats chosen as small
\* blind, big blind and first to act preflop are non-spectator seats dealt
\* two hole cards in this hand, and the two blind seats differ.
CexC20 ==
  [][ HandStarts
      => /\ \A i \in {blindSeats'.sb, blindSeats'.bb, gameState'.currentPlayerIndex} :
              /\ i \in dealtSeats'
              /\ gameState'.players[i].status # "spectator"
              /\ Len(gameState'.players[i].hand) = 2
         /\ blindSeats'.sb # blindSeats'.bb ]_vars

\* getAIDecision has returned for a request in which chips were owed.
Sanitized == probe.fn = "getAIDecision" /\ probe.done

\* C13: getAIDecision never returns check when the table bet-to-match
\* exceeds the seat's current-street bet, whatever the strategy returned; a
\* raw check is then returned as call or fold, and every other raw action
\* keeps its kind.
ThmC13 ==
  (Sanitized /\ probe.snap.tableBet > probe.snap.currentBet)
    => /\ probe.out.action # "check"
       /\ probe.raw.action = "check" => probe.out.action \in {"call", "fold"}
       /\ probe.raw.action # "check" => probe.out.action = probe.raw.action

\* A strategy returned check while 10 chips were owed and getAIDecision
\* returned fold.
WitC13 ==
  /\ Sanitized
  /\ probe.raw.action = "check"
  /\ probe.snap.tableBet - probe.snap.currentBet = BB_AMOUNT
  /\ probe.out.action = "fold"

\* C14 as stated: whenever getAIDecision returns raise, the amount lies in
\* [table bet-to-match + minimum raise increment, seat's chips + seat's
\* current-street bet].
CexC14 ==
  (Sanitized /\ probe.out.action = "raise")
    => /\ probe.out.amount >= probe.snap.tableBet + probe.snap.minRaise
       /\ probe.out.amount <= probe.snap.chips + probe.snap.currentBet

\* The step applies the action decided by a pending decision callback.
DecisionApplied ==
  /\ op'.name = "handleAction"
  /\ decisionTimers # <<>>
  /\ decisionTimers' # decisionTimers

\* C16 as stated: while the thinking flag is set, the only action applied to
\* the hand is the one decided by the outstanding decision, advanceTurn does
\* not run, no further decision is requested, and the flag stays set until
\* the decided action is applied.
CexC16 ==
  [][ gameState.isThinking
        => /\ op'.name = "handleAction" => DecisionApplied
           /\ ~Advances
           /\ op'.name # "handleAction"
                => (decisionTimers' = decisionTimers /\ gameState'.isThinking) ]_vars

\* C15 as stated: every decision request eventually yields a decision, so
\* the thinking flag set by a request is eventually cleared, whatever the
\* external service does.
CexC15 == gameState.isThinking ~> ~gameState.isThinking

\* The strength of poker hands by the rules of the game, against which the
\* scores are compared: five cards have a category and the values that
\* decide within it, and a hand of more cards has the strength of its best
\* five.
ValueCount(F, v) == Cardinality({c \in F : c.value = v})

\* The values of V, those held most often first and the higher one first
\* among those held equally often.
RECURSIVE ByCountThenValue(_, _)
ByCountThenValue(F, V) ==
  IF V = {} THEN <<>>
  ELSE LET m == CHOOSE v \in V : \A w \in V :
                  ValueCount(F, w) * 15 + w <= ValueCount(F, v) * 15 + v
       IN <<m>> \o ByCountThenValue(F, V \ {m})

\* The high card of five cards in sequence, the ace being low in
\* A-2-3-4-5; 0 if they are not in sequence.
FiveInSequence(V) ==
  IF Cardinality(V) # 5 THEN 0
  ELSE IF V = {14, 2, 3, 4, 5} THEN 5
  ELSE LET hi == CHOOSE v \in V : \A w \in V : w <= v
           lo == CHOOSE v \in V : \A w \in V : v <= w
       IN IF hi - lo = 4 THEN hi ELSE 0

FiveCategory(F) ==
  LET V == {c.value : c \in F}
      suited == \A c, d \in F : c.suit = d.suit
      inSequence == FiveInSequence(V) # 0
  IN IF suited /\ inSequence THEN 8
     ELSE IF \E v \in V : ValueCount(F, v) = 4 THEN 7
     ELSE IF Cardinality(V) = 2 THEN 6
     ELSE IF suited THEN 5
     ELSE IF inSequence THEN 4
     ELSE IF \E v \in V : ValueCount(F, v) = 3 THEN 3
     ELSE IF Cardinality(V) = 3 THEN 2
     ELSE IF Cardinality(V) = 4 THEN 1
     ELSE 0

RECURSIVE InOrder(_, _)
InOrder(s, i) ==
  IF i > Len(s) THEN 0 ELSE s[i] * Pow(15, 5 - i) + InOrder(s, i + 1)

\* Category first, then the deciding values in order; two five-card hands
\* compare as these numbers do.
FiveStrength(F) ==
  LET V == {c.value : c \in F}
      cat == FiveCategory(F)
  IN cat * Pow(15, 5)
       + (IF cat \in {8, 4} THEN FiveInSequence(V) * Pow(15, 4)
          ELSE InOrder(ByCountThenValue(F, V), 1))

BestFive(h) ==
  LET all == {FiveStrength(F) : F \in HandsOf(h, 5)}
  IN CHOOSE k \in all : \A m \in all : m <= k

\* The table of strengths, computed once.
Strength == [h \in SevenCardHands \cup ShortHands |-> BestFive(h)] @@ <<>>

CategoryOf(k) == k \div Pow(15, 5)

\* evaluateHand has returned for two hands of seven cards.
Evaluated7 ==
  /\ probe.fn = "evaluateHand"
  /\ probe.done
  /\ Cardinality(probe.a) = 7
  /\ Cardinality(probe.b) = 7

\* C17: for two hands of 7 cards, if the best five cards of hand A beat
\* those of hand B by category and then by the deciding values in order,
\* evaluateHand scores A strictly above B; if the best five are of equal
\* strength, the scores are equal.
ThmC17 ==
  Evaluated7
    => /\ Strength[probe.a] > Strength[probe.b] => probe.ra.score > probe.rb.score
       /\ Strength[probe.a] = Strength[probe.b] => probe.ra.score = probe.rb.score

\* Two hands with aces and kings as two pair that differ in the kicker
\* only, queen against nine, have been evaluated.
WitC17 ==
  /\ Evaluated7
  /\ Strength[probe.a] = 2 * Pow(15, 5) + 14 * Pow(15, 4) + 13 * Pow(15, 3) + 12 * Pow(15, 2)
  /\ Strength[probe.b] = 2 * Pow(15, 5) + 14 * Pow(15, 4) + 13 * Pow(15, 3) + 9 * Pow(15, 2)
  /\ probe.ra.score > probe.rb.score

\* The best five cards of the hand are A-2-3-4-5 of mixed suits.
IsWheel(h) == Strength[h] = 4 * Pow(15, 5) + 5 * Pow(15, 4)

\* C18: a 7-card hand whose best five cards are A-2-3-4-5 of mixed suits
\* evaluates to rank 4 with straight high card 5 (score 4000005), below the
\* score of any hand whose best is a 6-high straight and above the score of
\* any hand whose best is three of a kind.
ThmC18 ==
  (Evaluated7 /\ IsWheel(probe.a))
    => /\ probe.ra.rank = 4
       /\ probe.ra.score = 4000000 + 5
       /\ Strength[probe.b] = 4 * Pow(15, 5) + 6 * Pow(15, 4)
            => probe.ra.score < probe.rb.score
       /\ CategoryOf(Strength[probe.b]) = 3 => probe.ra.score > probe.rb.score

\* A wheel holding a pair of aces and a pair of deuces has been evaluated
\* together with a 6-high straight.
WitC18 ==
  /\ Evaluated7
  /\ IsWheel(probe.a)
  /\ ValueCount(probe.a, 14) = 2
  /\ ValueCount(probe.a, 2) = 2
  /\ Strength[probe.b] = 4 * Pow(15, 5) + 6 * Pow(15, 4)
  /\ probe.rb.rank = 4

\* Values held at least n times in the hand.
HeldTimes(h, n) == {v \in {c.value : c \in h} : ValueCount(h, v) >= n}

Highest(V) == CHOOSE v \in V : \A w \in V : w <= v

\* The hand holds a three-of-a-kind with another pair or three-of-a-kind,
\* and neither four of a kind nor a straight flush.
HoldsFullHouse(h) ==
  /\ HeldTimes(h, 3) # {}
  /\ HeldTimes(h, 4) = {}
  /\ HeldTimes(h, 2) \ {Highest(HeldTimes(h, 3))} # {}
  /\ CategoryOf(Strength[h]) # 8

\* C19: for 5 to 7 cards holding a three-of-a-kind with another pair or
\* three-of-a-kind (no four of a kind, no straight flush), evaluateHand
\* returns rank 6 with the highest value held three times as the
\* three-of-a-kind and the highest other value held at least twice as the
\* pair.
ThmC19 ==
  (probe.fn = "evaluateHand" /\ probe.done /\ HoldsFullHouse(probe.a))
    => LET trip == Highest(HeldTimes(probe.a, 3))
           pair == Highest(HeldTimes(probe.a, 2) \ {trip})
       IN /\ probe.ra.rank = 6
          /\ probe.ra.score = 6000000 + trip * 100 + pair

\* Six cards holding nines and fours three times each have been evaluated.
WitC19 ==
  /\ probe.fn = "evaluateHand"
  /\ probe.done
  /\ Cardinality(probe.a) = 6
  /\ HeldTimes(probe.a, 3) = {9, 4}
  /\ probe.ra.score = 6000000 + 9 * 100 + 4

\* C21 as stated: a seat with 0 chips when a hand starts is a spectator in
\* the hand, and a spectator stays one in every step: it is not dealt
\* cards, posts no blind, keeps its status, does not become the seat to
\* act and receives no chips.
CexC21 ==
  [][ /\ HandStarts
           => \A i \in Seats :
                Players[i].chips = 0 => gameState'.players[i].status = "spectator"
      /\ \A i \in WithStatus(Players, "spectator") :
           /\ gameState'.players[i].status = "spectator"
           /\ i \notin dealtSeats'
           /\ i \notin {blindSeats'.sb, blindSeats'.bb}
           /\ gameState'.currentPlayerIndex # i
           /\ gameState'.players[i].chips = Players[i].chips ]_vars

\* The step is a run of advanceTurn in a betting stage that ends neither the
\* hand nor the street.
PassesTurn ==
  /\ Advances
  /\ Stage \in BettingStages
  /\ gameState'.stage = Stage

\* Seats from seat a upward to the seat before b, wrapping.
SeatsBetween(a, b) == {(a + k) % NumSeats : k \in 0 .. (((b - a) % NumSeats) - 1)}

\* C22: whenever advanceTurn passes the turn on, the new seat to act is the
\* first seat with status active found scanning upward, wrapping, from the
\* seat after the seat whose turn it was; every seat passed over is folded,
\* all-in, bust or spectator, and nothing else in the state changes but the
\* thinking flag, which the effect sets when it asks the new seat.
ThmC22 ==
  [][ PassesTurn
        => LET from == (gameState.currentPlayerIndex + 1) % NumSeats
               new == gameState'.currentPlayerIndex
           IN /\ new \in Seats
              /\ Players[new].status = "active"
              /\ \A i \in SeatsBetween(from, new) : Players[i].status # "active"
              /\ gameState' = [gameState EXCEPT
                                 !.currentPlayerIndex = new,
                                 !.isThinking = gameState'.isThinking] ]_vars

\* The turn has passed from seat 3 to seat 1, wrapping over seats without
\* chips and the folded seat 0.
WitC22 ==
  /\ op.name = "advanceTurn"
  /\ op.seat = 3
  /\ Stage = "preflop"
  /\ gameState.currentPlayerIndex = 1
  /\ Players[0].status = "folded"
  /\ Players[1].status = "active"
  /\ Players[3].status = "active"

\* The step is a run of advanceTurn that opens the flop, the turn or the
\* river.
OpensStreet ==
  /\ Advances
  /\ gameState'.stage \in {"flop", "turn", "river"}
  /\ gameState'.stage # Stage

\* C23 as stated: after every advance to flop, turn or river with at least
\* one active seat, the seat to act is the first active seat found scanning
\* upward, wrapping, from the seat after the dealer button.
CexC23 ==
  [][ (OpensStreet /\ WithStatus(gameState'.players, "active") # {})
        => LET from == (gameState'.dealerIndex + 1) % NumSeats
               new == gameState'.currentPlayerIndex
           IN /\ new \in Seats
              /\ gameState'.players[new].status = "active"
              /\ \A i \in SeatsBetween(from, new) :
                   gameState'.players[i].status # "active" ]_vars


\* The stage moves one street forward, or a betting stage ends with a single
\* seat left in the hand.
StreetOrder ==
  \/ gameState'.stage = Stage
  \/ HandStarts
  \/ Stage \in BettingStages /\ gameState'.stage = StageAfter(Stage)
  \/ /\ Stage \in BettingStages
     /\ gameState'.stage = "gameOver"
     /\ Cardinality(Contenders(gameState)) = 1

\* The number of community cards of each betting stage.
BoardSize(st) ==
  CASE st = "preflop" -> 0
    [] st = "flop" -> 3
    [] st = "turn" -> 4
    [] st = "river" -> 5

\* C24: within one hand the stage only moves along preflop, flop, turn,
\* river, game-over in that order, a betting stage ending early only when a
\* single seat is left in the hand; the board holds 0, 3, 4 and 5 cards in
\* preflop, flop, turn and river; and every street advance takes from the
\* end of the deck one burn card and then exactly the cards it reveals.
ThmC24 ==
  /\ [](Stage \in BettingStages => Len(gameState.communityCards) = BoardSize(Stage))
  /\ [][ /\ StreetOrder
         /\ OpensStreet
            => LET deck == gameState.deck
                   n == Len(deck)
                   k == BoardSize(gameState'.stage) - BoardSize(Stage)
               IN /\ gameState'.deck = SubSeq(deck, 1, n - k - 1)
                  /\ gameState'.communityCards
                       = gameState.communityCards
                           \o [j \in 1 .. k |-> deck[n - j]]
         /\ (~OpensStreet /\ ~HandStarts) => gameState'.deck = gameState.deck ]_vars

\* The river has been opened: five cards lie on the board and the deck has
\* lost the hole cards, three burn cards and the board.
WitC24 ==
  /\ op.name = "advanceTurn"
  /\ Stage = "river"
  /\ Len(gameState.communityCards) = 5
  /\ Len(gameState.deck) = 52 - 2 * Cardinality(dealtSeats) - 8
  /\ Cardinality(WithStatus(Players, "active")) >= 2


\* C25: every advance to flop, turn or river sets the table bet-to-match to
\* 0 and the minimum raise increment to the big blind, resets the
\* current-street bet of the active seats to 0 and clears their recorded
\* action, and leaves the recorded action of every seat that is not active,
\* every status, every chip stack, every total invested and the pot
\* unchanged.
ThmC25 ==
  [][ OpensStreet
      => /\ gameState'.currentBet = 0
         /\ gameState'.minRaise = BB_AMOUNT
         /\ gameState'.pot = gameState.pot
         /\ \A i \in Seats :
              LET p == Players[i]
                  q == gameState'.players[i]
              IN /\ q.status = p.status
                 /\ q.chips = p.chips
                 /\ q.totalInvested = p.totalInvested
                 /\ p.status = "active" => q.currentBet = 0 /\ q.lastAction = "none"
                 /\ p.status # "active" => q.lastAction = p.lastAction ]_vars

\* A street has been opened with a folded and an all-in seat that keep
\* their recorded action while the two active seats have none.
WitC25 ==
  /\ op.name = "advanceTurn"
  /\ Stage \in {"flop", "turn", "river"}
  /\ gameState.currentBet = 0
  /\ gameState.pot > 0
  /\ \E i, j \in Seats :
       /\ Players[i].status = "folded" /\ Players[i].lastAction # "none"
       /\ Players[j].status = "all-in" /\ Players[j].lastAction # "none"
  /\ \E i \in Seats : Players[i].status = "active" /\ Players[i].lastAction = "none"
                      /\ Players[i].totalInvested > 0


\* Nobody can act: a betting stage with no active seat and two or more
\* seats all-in.
NobodyCanAct ==
  /\ Stage \in BettingStages
  /\ WithStatus(Players, "active") = {}
  /\ Cardinality(WithStatus(Players, "all-in")) >= 2

\* An action has been applied to a seat that was not active while no seat
\* was active.
ActedUnasked ==
  /\ op.name = "handleAction"
  /\ op.was # "active"
  /\ WithStatus(Players, "active") = {}

\* The board has run out and the pot has been distributed at showdown.
RanOut ==
  /\ Stage = "gameOver"
  /\ Len(gameState.communityCards) = 5
  /\ gameState.pot = 0
  /\ Len(gameState.winners) = 1
  /\ Cardinality(Contenders(gameState)) >= 2

\* C26: from every betting-stage state in which no seat is active and at
\* least two seats are all-in, the timers alone lead to game-over with five
\* cards on the board and the pot distributed at showdown, unless an action
\* is applied meanwhile.
ThmC26 == NobodyCanAct ~> (RanOut \/ ActedUnasked)

\* The board has run out after a hand in which nobody could act before the
\* flop was dealt.
WitC26 ==
  /\ RanOut
  /\ op.name = "advanceTurn"
  /\ ~ActedUnasked
  /\ Cardinality(WithStatus(Players, "all-in")) >= 2
  /\ WithStatus(Players, "active") = {}


\* startNewHand is invoked.
NextHandPressed == op'.name = "startNewHand"

\* C27: when startNewHand is invoked while the human seat has no chips, or
\* while fewer than two seats have chips, no hand is started: no seat is
\* dealt cards, no blind is posted, and stage, pot, stacks, statuses, dealer
\* button and seat to act are as before.
CexC27 ==
  [][ (/\ NextHandPressed
       /\ \/ Players[0].chips = 0
          \/ Cardinality({i \in Seats : Players[i].chips > 0}) < 2)
      => /\ dealtSeats' = {}
         /\ gameState'.stage = Stage
         /\ gameState'.pot = gameState.pot
         /\ gameState'.dealerIndex = gameState.dealerIndex
         /\ gameState'.currentPlayerIndex = gameState.currentPlayerIndex
         /\ \A i \in Seats :
              /\ gameState'.players[i].chips = Players[i].chips
              /\ gameState'.players[i].status = Players[i].status
              /\ gameState'.players[i].hand = Players[i].hand
              /\ gameState'.players[i].currentBet = Players[i].currentBet ]_vars


\* The seats that are in the hand: active, folded or all-in.
InHand(g) == {i \in Seats : g.players[i].status \in {"active", "folded", "all-in"}}

\* Every card on the table, seat by seat, then the board, then the deck.
RECURSIVE HoleCards(_, _)
HoleCards(g, S) ==
  IF S = {} THEN <<>>
  ELSE LET i == CHOOSE k \in S : \A m \in S : k <= m
       IN g.players[i].hand \o HoleCards(g, S \ {i})
CardsOnTable(g) == HoleCards(g, InHand(g)) \o g.communityCards \o g.deck

\* The pops the streets still to be opened will make.
PopsToCome(st) ==
  CASE st = "preflop" -> 8
    [] st = "flop" -> 4
    [] st = "turn" -> 2
    [] OTHER -> 0

\* C28: in every state of a hand the hole cards of the seats that are
\* active, folded or all-in, the board and the deck are pairwise distinct
\* cards of one 52-card deck, each such seat holds exactly two hole cards,
\* and the deck holds the cards the streets still to come will pop.
CexC28 ==
  dealtSeats # {}
    => LET cards == CardsOnTable(gameState)
       IN /\ \A i \in InHand(gameState) : Len(Players[i].hand) = 2
          /\ \A a, b \in DOMAIN cards : a # b => cards[a] # cards[b]
          /\ \A a \in DOMAIN cards : \E n \in 1 .. 52 : createDeck[n] = cards[a]
          /\ Len(gameState.deck) >= PopsToCome(Stage)


\* C29: the last-aggressor marker changes in two ways only: every raise,
\* full-sized or under-sized, sets it to the raising seat, and the start of
\* a hand sets it to none; a fold, check or call, the passing of the turn,
\* the opening of a street and the distribution of the pot leave it as it
\* is.
ThmC29 ==
  [][ IF Applies("raise") THEN gameState'.lastAggressorIndex = gameState.currentPlayerIndex
      ELSE IF HandStarts THEN gameState'.lastAggressorIndex = NoAggressor
      ELSE gameState'.lastAggressorIndex = gameState.lastAggressorIndex ]_vars

\* A seat went all-in with a raise smaller than the minimum raise
\* increment and is marked as the last aggressor.
WitC29 ==
  /\ op.name = "handleAction" /\ op.action = "raise" /\ op.was = "active"
  /\ Stage \in BettingStages
  /\ gameState.currentBet > op.tableBet
  /\ gameState.currentBet - op.tableBet < gameState.minRaise
  /\ gameState.lastAggressorIndex = op.seat
  /\ Players[op.seat].lastAction = "Raise"


\* C30: every hand that is started places the dealer button on the first
\* seat that is not a spectator, scanning the seat indices upward modulo
\* the table size from the seat after the previous dealer.
ThmC30 ==
  [][ HandStarts
      => LET from == (gameState.dealerIndex + 1) % NumSeats
             new == gameState'.dealerIndex
         IN /\ new \in Seats
            /\ gameState'.players[new].status # "spectator"
            /\ \A i \in SeatsBetween(from, new) :
                 gameState'.players[i].status = "spectator" ]_vars

\* A hand of three seats has been started with the button on seat 0, the
\* scan having passed the spectators in the seats 4 to 7.
WitC30 ==
  /\ op.name = "startNewHand"
  /\ Stage = "preflop"
  /\ gameState.dealerIndex = 0
  /\ dealtSeats = {0, 1, 3}
  /\ \A i \in 4 .. 7 : Players[i].status = "spectator"


\* The sum of total-invested over the seats of S.
RECURSIVE SumInvested(_, _)
SumInvested(players, S) ==
  IF S = {} THEN 0
  ELSE LET i == CHOOSE k \in S : TRUE
       IN players[i].totalInvested + SumInvested(players, S \ {i})

\* C31: in every betting-stage state the pot equals the sum of
\* total-invested over the seats dealt into the hand; within a hand no
\* seat's total-invested decreases, and the start of a hand leaves every
\* seat dealt in with nothing invested but the blind it has posted.
CexC31 ==
  [][ /\ gameState'.stage \in BettingStages
            => gameState'.pot = SumInvested(gameState'.players, dealtSeats')
      /\ ~HandStarts
            => \A i \in Seats :
                 gameState'.players[i].totalInvested >= Players[i].totalInvested
      /\ HandStarts
            => \A i \in dealtSeats' :
                 gameState'.players[i].totalInvested
                   = (IF i = blindSeats'.sb THEN Min(Players[i].chips, SB_AMOUNT)
                      ELSE IF i = blindSeats'.bb THEN Min(Players[i].chips, BB_AMOUNT)
                      ELSE 0) ]_vars


\* A further step is possible: a timer is pending, or the turn is on the
\* human seat, whose buttons are then enabled.
CanStep ==
  \/ actionTimers > 0
  \/ autoTimers > 0
  \/ decisionTimers # <<>>
  \/ gameState.currentPlayerIndex = 0

\* C32: no betting-stage state is reachable from which no further step is
\* possible, so that, the timers firing and the seats acting, every hand
\* that is started reaches game-over.
CexC32 == Stage \in BettingStages => CanStep


\* No advanceTurn is pending: the turn rests where it is.
TurnRests == actionTimers = 0 /\ autoTimers = 0

\* C33: in every betting-stage state in which some seat is active and the
\* turn rests, the seat whose turn it is is active: the turn rests neither
\* on a folded, all-in or spectator seat, at the start of a hand or of a
\* street.
CexC33 ==
  (/\ Stage \in BettingStages
   /\ TurnRests
   /\ WithStatus(Players, "active") # {})
  => /\ gameState.currentPlayerIndex \in Seats
     /\ Players[gameState.currentPlayerIndex].status = "active"


\* The seats a decision is pending for.
SeatsAsked == {decisionTimers[k].seat : k \in DOMAIN decisionTimers}

\* C34: every action applied as the result of a decision is applied to the
\* seat the decision was requested for, in whatever order the decision
\* timers and the advanceTurn timers fire.
CexC34 == [][ DecisionApplied => gameState.currentPlayerIndex \in SeatsAsked ]_vars


\* A betting stage in which some seat is active.
TurnsTaken == Stage \in BettingStages /\ WithStatus(Players, "active") # {}

\* C35: in a betting stage with an active seat the actions and the
\* advancements of the turn alternate: an action is applied only after the
\* turn has advanced since the last action, advanceTurn runs only after an
\* action has been applied since it last ran, and it does not move the turn
\* past an active seat that has no recorded action.
CexC35 ==
  [][ TurnsTaken
      => /\ op'.name = "handleAction" => op.name # "handleAction"
         /\ Advances => op.name = "handleAction"
         /\ (Advances /\ gameState'.currentPlayerIndex # gameState.currentPlayerIndex
               /\ gameState.currentPlayerIndex \in Seats
               /\ Players[gameState.currentPlayerIndex].status = "active")
            => Players[gameState.currentPlayerIndex].lastAction # "none" ]_vars


CexC37 ==
  Stage \in BettingStages
    => \A i \in Seats :
         /\ Players[i].chips >= 0
         /\ Players[i].status = "all-in" => Players[i].chips = 0
         /\ Players[i].status = "active" => Players[i].chips > 0

====
